---- MODULE Spec2Model ----
(***************************************************************************)
(* Model of scripts/ingest/02_fetch_yfinance_data.py: the resumable        *)
(* yfinance fetcher.  Durable state is the status document                 *)
(* (data/ingestion_status.json) and the per-ticker output files            *)
(* (data/stock_data/{TICKER}.json); the tickers file is an input that each *)
(* run reads once.  One process at a time runs main(); it can be killed    *)
(* between any two steps.                                                  *)
(***************************************************************************)
EXTENDS Integers, Sequences, FiniteSets, TLC

\* ---------------------------------------------------------------- bounds
\* Identifiers are 1..NumTickers.
NumTickers == 3
\* Longest tickers file (all_tickers) the discovery step produces.
MaxCatalogLen == 3
\* BATCH_SIZE of the script (20 at line 29), scaled down so that a run over
\* the bounded catalog has more than one batch.
BATCH_SIZE == 2
\* Readings of the clock, half a day apart, that the calls of one ticker see.
MaxTicks == 2

Tickers == 1..NumTickers

\* ------------------------------------------------------------ python values
\* None and an optional value: None is the empty tuple, a present value x of
\* a scalar field is <<x>>.
None == <<>>
Some(x) == <<x>>

\* Dollar amounts exceed 32 bits (MARKET_CAP_MAX is 10^10), so an amount is
\* the pair <<millions, units>> with 0 <= units < 10^6, ordered
\* lexicographically.
Dollars(m, u) == <<m, u>>
MARKET_CAP_MIN == Dollars(10, 0)
MARKET_CAP_MAX == Dollars(10000, 0)
Less(a, b) == a[1] < b[1] \/ (a[1] = b[1] /\ a[2] < b[2])

Range(s) == {s[n] : n \in 1..Len(s)}

\* ------------------------------------------------------------ the provider
\* What yf.Ticker(t).info yields: either the call raises (raises = <<text>>)
\* or it returns the info dict, of which the script reads these keys.
\* Prices are in units of 10^-5, opex, revenue and shares are whole numbers,
\* heldPercentInsiders is in units of 10^-4, and news is t.news: one entry
\* per item, its providerPublishTime in seconds or None when the key is absent.
Bundle(r, rmp, cp, mc) ==
    [raises |-> r, regularMarketPrice |-> rmp, currentPrice |-> cp, marketCap |-> mc,
     previousClose |-> None, operatingExpenses |-> None, totalRevenue |-> None,
     sharesOutstanding |-> None, heldPercentInsiders |-> None, news |-> <<>>]

\* The info dict b with the keys the derived fields are computed from.
Info(b, prev, opex, rev, shares, pct, n) ==
    [b EXCEPT !.previousClose = prev, !.operatingExpenses = opex, !.totalRevenue = rev,
              !.sharesOutstanding = shares, !.heldPercentInsiders = pct, !.news = n]

B_error == Bundle(Some("HTTP 429"), None, None, None)
B_small == Bundle(None, Some(3), Some(3), Dollars(5, 0))
B_ok    == Bundle(None, None, Some(7), Dollars(50, 0))

\* The provider of the model answers each ticker the same way every time:
\* a market capitalisation inside the band, one below it, an error, in turn.
Provider(t) == IF t % 3 = 1 THEN B_ok ELSE IF t % 3 = 2 THEN B_small ELSE B_error

\* ------------------------------------------------------------ load_status
EmptyTickers == [order |-> <<>>, rec |-> <<>>]

\* The dict status["tickers"]: insertion-ordered keys and a record per key.
Stats(tickers) ==
    LET n(s) == Cardinality({t \in DOMAIN tickers.rec : tickers.rec[t].status = s})
    IN  [total |-> Cardinality(DOMAIN tickers.rec),
         completed |-> n("completed"), failed |-> n("failed"),
         skipped |-> n("skipped"), pending |-> n("pending")]

ZeroStats == [total |-> 0, completed |-> 0, failed |-> 0, skipped |-> 0, pending |-> 0]

\* The status a first run starts from when no status file exists.
FreshStatus == [tickers |-> EmptyTickers, stats |-> ZeroStats]


\* --------------------------------------------------------- main: the merge
\* Lines 319-327: a ticker of the catalog that is not yet a key is appended
\* with a pending record; a ticker that is a key is left alone.
PendingRecord == [status |-> "pending", reason |-> None, market_cap |-> None]

Insert(tickers, t) ==
    [order |-> Append(tickers.order, t), rec |-> (t :> PendingRecord) @@ tickers.rec]

RECURSIVE Merge_NoCheck(_, _)
Merge_NoCheck(tickers, catalog) ==
    IF catalog = <<>> THEN tickers
    ELSE Merge_NoCheck(Insert(tickers, Head(catalog)), Tail(catalog))

RECURSIVE Merge_Resets(_, _)
Merge_Resets(tickers, catalog) ==
    IF catalog = <<>> THEN tickers
    ELSE Merge_Resets(IF Head(catalog) \in DOMAIN tickers.rec
                      THEN [tickers EXCEPT !.rec[Head(catalog)] = PendingRecord]
                      ELSE Insert(tickers, Head(catalog)),
                      Tail(catalog))

RECURSIVE Merge(_, _)
Merge(tickers, catalog) ==
    IF catalog = <<>> THEN tickers
    ELSE Merge(IF Head(catalog) \in DOMAIN tickers.rec THEN tickers
               ELSE Insert(tickers, Head(catalog)),
               Tail(catalog))

RECURSIVE PendingOf_RetriesFailed(_, _)
PendingOf_RetriesFailed(order, rec) ==
    IF order = <<>> THEN <<>>
    ELSE (IF rec[Head(order)].status \in {"pending", "failed"} THEN <<Head(order)>> ELSE <<>>)
         \o PendingOf_RetriesFailed(Tail(order), rec)

PendingOf_All(order, rec) == order

\* Lines 332-336: the keys whose record is pending, in dict order.
RECURSIVE PendingOf(_, _)
PendingOf(order, rec) ==
    IF order = <<>> THEN <<>>
    ELSE (IF rec[Head(order)].status = "pending" THEN <<Head(order)>> ELSE <<>>)
         \o PendingOf(Tail(order), rec)

\* ------------------------------------------------------ fetch_ticker_data
\* a or b of Python for an optional number: None and 0 are falsy.
OrNum(a, b) == IF a = None \/ a = Some(0) THEN b ELSE a
\* reason or "default": None and the empty string are falsy.
OrText(reason, default) == IF reason = None \/ reason = <<"">> THEN <<default>> ELSE reason

Outcome(d, s, r) == [data |-> d, result_status |-> s, reason |-> r]

\* round(x, n) of Python on the exact quotient num / den, den > 0: the
\* nearest integer, a tie going to the even one.
RoundDiv(num, den) ==
    LET q == num \div den
        r == num % den
    IN  IF 2 * r < den THEN q
        ELSE IF 2 * r > den THEN q + 1
        ELSE IF q % 2 = 0 THEN q ELSE q + 1

\* int(x) of Python on the exact quotient num / den, den > 0: towards zero.
IntDiv(num, den) == IF num >= 0 THEN num \div den ELSE -((-num) \div den)

\* Lines 194-207: the first ten items of t.news, published defaulting to 0.
RECURSIVE NewsItems(_)
NewsItems(n) ==
    IF n = <<>> THEN <<>>
    ELSE <<[published |-> IF Head(n) = None THEN 0 ELSE Head(n)[1]]>>
         \o NewsItems(Tail(n))

News(b) == NewsItems(SubSeq(b.news, 1, IF Len(b.news) < 10 THEN Len(b.news) ELSE 10))

\* max(item.get("published", 0) for item in news), news not empty.
LatestTs(news) ==
    CHOOSE m \in {news[n].published : n \in 1..Len(news)} :
        \A n \in 1..Len(news) : news[n].published <= m

\* Lines 220-227: whole days from the latest item to the clock reading;
\* timedelta.days is the floor of the difference in days.
DaysSinceLastPr(news, clock) ==
    IF news = <<>> THEN None
    ELSE IF LatestTs(news) > 0 THEN Some((clock - LatestTs(news)) \div 86400)
    ELSE None

\* Lines 274-278: round(current - prev, 4), in units of 10^-4.
PriceChange(current, prev) ==
    IF current # None /\ prev # None THEN Some(RoundDiv(current[1] - prev[1], 10)) ELSE None

MonthlyBurn_ZeroDefault(opex, rev) ==
    IF opex # None
    THEN Some(RoundDiv(100 * (opex[1] - (IF rev = None THEN 0 ELSE rev[1])), 12))
    ELSE None

\* Lines 280-284: round((opex - rev) / 12, 2), in cents.
MonthlyBurn(opex, rev) ==
    IF opex # None /\ rev # None THEN Some(RoundDiv(100 * (opex[1] - rev[1]), 12)) ELSE None

\* Lines 286-290: int(shares * insider_pct).
InsiderShares(shares, pct) ==
    IF shares # None /\ pct # None THEN Some(IntDiv(shares[1] * pct[1], 10000)) ELSE None

Data_Unstamped(t, b, clock) ==
    LET price == OrNum(b.currentPrice, b.regularMarketPrice)
    IN  [fetched_at |-> 0,
         yfinance_ticker |-> t,
         market_cap |-> b.marketCap,
         price |-> price,
         previous_close |-> b.previousClose,
         price_change |-> PriceChange(price, b.previousClose),
         total_opex |-> b.operatingExpenses,
         revenue |-> b.totalRevenue,
         monthly_burn |-> MonthlyBurn(b.operatingExpenses, b.totalRevenue),
         shares_current |-> b.sharesOutstanding,
         held_percent_insiders |-> b.heldPercentInsiders,
         insider_shares |-> InsiderShares(b.sharesOutstanding, b.heldPercentInsiders),
         days_since_last_pr |-> DaysSinceLastPr(News(b), clock),
         news_items |-> News(b)]

\* Lines 229-292: the fields of data that the status document and the claims
\* read, clock being what datetime.now yields during the call.
Data(t, b, clock) ==
    LET price == OrNum(b.currentPrice, b.regularMarketPrice)
    IN  [fetched_at |-> clock,
         yfinance_ticker |-> t,
         market_cap |-> b.marketCap,
         price |-> price,
         previous_close |-> b.previousClose,
         price_change |-> PriceChange(price, b.previousClose),
         total_opex |-> b.operatingExpenses,
         revenue |-> b.totalRevenue,
         monthly_burn |-> MonthlyBurn(b.operatingExpenses, b.totalRevenue),
         shares_current |-> b.sharesOutstanding,
         held_percent_insiders |-> b.heldPercentInsiders,
         insider_shares |-> InsiderShares(b.sharesOutstanding, b.heldPercentInsiders),
         days_since_last_pr |-> DaysSinceLastPr(News(b), clock),
         news_items |-> News(b)]

fetch_ticker_data_NoMinimum(t, b, clock) ==
    IF b.raises # None THEN Outcome(None, "failed", b.raises)
    ELSE IF b.regularMarketPrice = None /\ b.currentPrice = None
         THEN Outcome(None, "no_data", <<"No market data available">>)
    ELSE IF b.marketCap = None
         THEN Outcome(None, "skipped", <<"No market cap data">>)
    ELSE IF Less(MARKET_CAP_MAX, b.marketCap)
         THEN Outcome(None, "skipped", <<"Market cap $", b.marketCap, " above $10B maximum">>)
    ELSE Outcome(Data(t, b, clock), "completed", None)

fetch_ticker_data_ExclusiveBounds(t, b, clock) ==
    IF b.raises # None THEN Outcome(None, "failed", b.raises)
    ELSE IF b.regularMarketPrice = None /\ b.currentPrice = None
         THEN Outcome(None, "no_data", <<"No market data available">>)
    ELSE IF b.marketCap = None
         THEN Outcome(None, "skipped", <<"No market cap data">>)
    ELSE IF ~Less(MARKET_CAP_MIN, b.marketCap)
         THEN Outcome(None, "skipped", <<"Market cap $", b.marketCap, " below $10M minimum">>)
    ELSE IF ~Less(b.marketCap, MARKET_CAP_MAX)
         THEN Outcome(None, "skipped", <<"Market cap $", b.marketCap, " above $10B maximum">>)
    ELSE Outcome(Data(t, b, clock), "completed", None)

fetch_ticker_data_CapFirst(t, b, clock) ==
    IF b.raises # None THEN Outcome(None, "failed", b.raises)
    ELSE IF b.marketCap = None
         THEN Outcome(None, "skipped", <<"No market cap data">>)
    ELSE IF Less(b.marketCap, MARKET_CAP_MIN)
         THEN Outcome(None, "skipped", <<"Market cap $", b.marketCap, " below $10M minimum">>)
    ELSE IF Less(MARKET_CAP_MAX, b.marketCap)
         THEN Outcome(None, "skipped", <<"Market cap $", b.marketCap, " above $10B maximum">>)
    ELSE IF b.regularMarketPrice = None /\ b.currentPrice = None
         THEN Outcome(None, "no_data", <<"No market data available">>)
    ELSE Outcome(Data(t, b, clock), "completed", None)

\* Lines 152-170 and 292-295.  The reason of a filtered ticker is the f-string
\* "Market cap ${market_cap:,.0f} below $10M minimum", kept as its parts.
fetch_ticker_data(t, b, clock) ==
    IF b.raises # None THEN Outcome(None, "failed", b.raises)
    ELSE IF b.regularMarketPrice = None /\ b.currentPrice = None
         THEN Outcome(None, "no_data", <<"No market data available">>)
    ELSE IF b.marketCap = None
         THEN Outcome(None, "skipped", <<"No market cap data">>)
    ELSE IF Less(b.marketCap, MARKET_CAP_MIN)
         THEN Outcome(None, "skipped", <<"Market cap $", b.marketCap, " below $10M minimum">>)
    ELSE IF Less(MARKET_CAP_MAX, b.marketCap)
         THEN Outcome(None, "skipped", <<"Market cap $", b.marketCap, " above $10B maximum">>)
    ELSE Outcome(Data(t, b, clock), "completed", None)

\* ------------------------------------------- main: recording one outcome
Completed_NoMetadata(rec, data) ==
    [rec EXCEPT !.status = "completed", !.reason = None]

\* Lines 375-378: the record after a written output.
Completed(rec, data) ==
    [rec EXCEPT !.status = "completed", !.reason = None, !.market_cap = data.market_cap]

\* Lines 381-395: the record of an outcome that is not completed.  There is
\* no test of the record's current status anywhere in the loop body.
NotCompleted(rec, res) ==
    IF res.result_status = "skipped"
    THEN [rec EXCEPT !.status = "skipped", !.reason = res.reason]
    ELSE IF res.result_status = "no_data"
    THEN [rec EXCEPT !.status = "skipped", !.reason = OrText(res.reason, "No data")]
    ELSE [rec EXCEPT !.status = "failed", !.reason = OrText(res.reason, "Unknown error")]

\* Lines 369-395 as one function of the record and the outcome, when the
\* output is written without error.
Apply(rec, res) ==
    IF res.result_status = "completed" /\ res.data # None THEN Completed(rec, res.data)
    ELSE NotCompleted(rec, res)

\* Lines 397-399: the except branch of the loop body, e the exception text.
Excepted(rec, e) == [rec EXCEPT !.status = "failed", !.reason = <<e>>]


\* ------------------------------------------------------------------ state
VARIABLES
    all_tickers,  \* main's all_tickers, read from data/tickers_raw.json; not read
                  \* again once merged, and emptied then
    statusFile,   \* data/ingestion_status.json: absent, torn or a whole document
    stockData,    \* data/stock_data/{t}.json per ticker: absent, torn or the whole data
    pc,           \* where the process is in main(); "idle" when none is running
    status,       \* main's status dict
    pending,      \* main's pending list
    i,            \* main's loop variable i, the offset of the current batch
    k,            \* tickers of the current batch already recorded
    site,         \* which call of save_status is under way: "init", "batch", "final"
    result,       \* what fetch_ticker_data returned for the current ticker
    steady,       \* environment: every write of an output file succeeds
    now,          \* environment: the clock, in seconds since the epoch
    info,         \* the info and news a directly called fetch_ticker_data is given
    calls,        \* history: the clock reading and the outcome of each direct call
    sleeps,       \* history: pauses of line 419 this run has entered
    saves,        \* history: calls of save_status at line 405 this run has completed
    fetchLog,     \* history: tickers handed to the provider in this run, in order
    crashInfo,    \* history: what the last kill interrupted, until the next run starts
    everSaved     \* history: tickers that were keys of a wholly written status document

vars == <<all_tickers, statusFile, stockData, pc, status, pending, i, k, site, result,
          steady, now, info, calls, sleeps, saves, fetchLog, crashInfo, everSaved>>

disk == <<statusFile, stockData>>
mem == <<all_tickers, status, pending, i, k, site, result>>
env == <<steady, now, info, calls>>
count == <<sleeps, saves>>
hist == <<env, count, fetchLog, crashInfo, everSaved>>

\* Sequences over the tickers of length at most n: the tickers files.
RECURSIVE SeqsUpTo(_)
SeqsUpTo(n) ==
    IF n = 0 THEN {<<>>}
    ELSE LET shorter == SeqsUpTo(n - 1)
         IN  shorter \cup {Append(s, t) : s \in {x \in shorter : Len(x) = n - 1}, t \in Tickers}

Catalogs == SeqsUpTo(MaxCatalogLen)

NoOutput == [state |-> "absent", data |-> None]
TornOutput == [state |-> "torn", data |-> None]
WholeOutput(data) == [state |-> "ok", data |-> data]

NoFile == [state |-> "absent", doc |-> FreshStatus]
TornFile == [state |-> "torn", doc |-> FreshStatus]
WholeFile(doc) == [state |-> "ok", doc |-> doc]

\* The clock reading every run of main is given, and the readings after it.
Clock0 == 1000000
Clocks == {Clock0 + n * 43200 : n \in 0..MaxTicks}
\* An info dict with no key.
EmptyInfo == Bundle(None, None, None, None)

NoResult == Outcome(None, "none", None)
NoCrash == [at |-> "none", lost |-> {}, saved |-> {}, batch |-> {}, rest |-> <<>>]

Running == pc \notin {"idle", "done", "aborted"}

\* The ticker the loop body is working on: pending[i + k] in Python's indices.
Current == pending[i + k + 1]
\* batch = pending[i : i + BATCH_SIZE]
BatchEnd == IF i + BATCH_SIZE < Len(pending) THEN i + BATCH_SIZE ELSE Len(pending)
Batch == SubSeq(pending, i + 1, BatchEnd)

Init ==
    /\ all_tickers = <<>>
    /\ statusFile = NoFile
    /\ stockData = [t \in Tickers |-> NoOutput]
    /\ pc = "idle"
    /\ status = FreshStatus
    /\ pending = <<>>
    /\ i = 0
    /\ k = 0
    /\ site = "init"
    /\ result = NoResult
    /\ steady \in BOOLEAN
    /\ now = Clock0
    /\ info = EmptyInfo
    /\ calls = <<>>
    /\ sleeps = 0
    /\ saves = 0
    /\ fetchLog = <<>>
    /\ crashInfo = NoCrash
    /\ everSaved = {}

ResetMem ==
    /\ all_tickers' = <<>>
    /\ status' = FreshStatus
    /\ pending' = <<>>
    /\ i' = 0
    /\ k' = 0
    /\ site' = "init"
    /\ result' = NoResult

\* ------------------------------------------------------------ environment
\* The process is killed (signal, power loss) between two steps: its memory
\* is gone, the files stay as they are.
\* What a kill interrupts: the batch being worked on, its tickers whose
\* outcome is recorded in memory only, and the tickers of the batches this
\* run has saved.
InBatch == site = "batch" /\ pc \in {"fetch", "record", "writing", "save", "saving"}
InterruptedBatch == IF InBatch THEN Range(Batch) ELSE {}
Unsaved ==
    IF InBatch /\ pc \in {"save", "saving"} THEN Range(Batch)
    ELSE IF InBatch THEN Range(SubSeq(pending, i + 1, i + k))
    ELSE {}
SavedBatches ==
    IF InBatch THEN Range(SubSeq(pending, 1, i))
    ELSE IF pc = "sleep" THEN Range(SubSeq(pending, 1, BatchEnd))
    ELSE IF site = "final" THEN Range(pending)
    ELSE {}
\* The snapshot from the interrupted batch on.
Remaining == IF InBatch THEN SubSeq(pending, i + 1, Len(pending)) ELSE <<>>

Crash ==
    /\ Running
    /\ pc' = "idle"
    /\ crashInfo' = [at |-> pc, lost |-> Unsaved, saved |-> SavedBatches,
                     batch |-> InterruptedBatch, rest |-> Remaining]
    /\ fetchLog' = <<>>
    /\ sleeps' = 0
    /\ saves' = 0
    /\ ResetMem
    /\ UNCHANGED <<disk, env, everSaved>>


\* -------------------------------------------------------------- save_status
SaveOpen_KeepsStats ==
    /\ pc = "save"
    /\ statusFile' = TornFile
    /\ pc' = "saving"
    /\ UNCHANGED <<stockData, mem, hist>>

\* Lines 61-73: the stats are recomputed, then open(STATUS_FILE, "w")
\* truncates the file in place.
SaveOpen ==
    /\ pc = "save"
    /\ status' = [status EXCEPT !.stats = Stats(status.tickers)]
    /\ statusFile' = TornFile
    /\ pc' = "saving"
    /\ UNCHANGED <<stockData, all_tickers, pending, i, k, site, result, hist>>

SaveWrite_SleepsAfterLast ==
    /\ pc = "saving"
    /\ statusFile' = WholeFile(status)
    /\ everSaved' = everSaved \cup DOMAIN status.tickers.rec
    /\ fetchLog' = IF site = "final" THEN <<>> ELSE fetchLog
    /\ \/ /\ site = "init"
          /\ pc' = "select"
          /\ UNCHANGED <<mem, count>>
       \/ /\ site = "batch"
          /\ pc' = "sleep"
          /\ saves' = saves + 1
          /\ sleeps' = sleeps + 1
          /\ UNCHANGED mem
       \/ /\ site = "final"
          /\ pc' = "done"
          /\ sleeps' = 0
          /\ saves' = 0
          /\ ResetMem
    /\ UNCHANGED <<stockData, env, crashInfo>>

\* Lines 73-74: json.dump has written the whole document and the file is
\* closed.  What follows depends on the call: line 329, 405 or 422.
SaveWrite ==
    /\ pc = "saving"
    /\ statusFile' = WholeFile(status)
    /\ everSaved' = everSaved \cup DOMAIN status.tickers.rec
    /\ fetchLog' = IF site = "final" THEN <<>> ELSE fetchLog
    /\ \/ /\ site = "init"
          /\ pc' = "select"
          /\ UNCHANGED <<mem, count>>
       \/ /\ site = "batch"
          /\ i + BATCH_SIZE < Len(pending)
          /\ pc' = "sleep"
          /\ saves' = saves + 1
          /\ sleeps' = sleeps + 1
          /\ UNCHANGED mem
       \/ /\ site = "batch"
          /\ ~(i + BATCH_SIZE < Len(pending))
          /\ pc' = "save"
          /\ site' = "final"
          /\ saves' = saves + 1
          /\ UNCHANGED <<all_tickers, status, pending, i, k, result, sleeps>>
       \/ /\ site = "final"
          /\ pc' = "done"
          /\ sleeps' = 0
          /\ saves' = 0
          /\ ResetMem
    /\ UNCHANGED <<stockData, env, crashInfo>>

\* --------------------------------------------------------------------- main
StartRun_IgnoresFile ==
    /\ ~Running
    /\ crashInfo' = NoCrash
    /\ pc' = "merge"
    /\ all_tickers' \in Catalogs
    /\ status' = FreshStatus
    /\ UNCHANGED <<disk, pending, i, k, site, result, env, count, fetchLog, everSaved>>

StartRun_FreshOnCorrupt ==
    /\ ~Running
    /\ crashInfo' = NoCrash
    /\ pc' = "merge"
    /\ all_tickers' \in Catalogs
    /\ status' = IF statusFile.state = "torn" THEN FreshStatus ELSE statusFile.doc
    /\ UNCHANGED <<disk, pending, i, k, site, result, env, count, fetchLog, everSaved>>

\* Lines 309-316: the tickers file is read (whatever discovery last wrote:
\* any catalog), then load_status.  json.load of a truncated status file
\* raises and nothing catches it.
StartRun ==
    /\ ~Running
    /\ crashInfo' = NoCrash
    /\ IF statusFile.state = "torn"
       THEN /\ pc' = "aborted"
            /\ ResetMem
       ELSE /\ pc' = "merge"
            /\ all_tickers' \in Catalogs
            /\ status' = statusFile.doc
            /\ UNCHANGED <<pending, i, k, site, result>>
    /\ UNCHANGED <<disk, env, count, fetchLog, everSaved>>

\* Lines 319-329: the merge of the catalog, on to the first save_status.
MergeCatalog ==
    /\ pc = "merge"
    /\ status' = [status EXCEPT !.tickers = Merge(status.tickers, all_tickers)]
    /\ all_tickers' = <<>>
    /\ pc' = "save"
    /\ UNCHANGED <<disk, pending, i, k, site, result, hist>>

\* Lines 332-353: the snapshot of the pending tickers; none, and main returns.
SelectPending ==
    /\ pc = "select"
    /\ LET p == PendingOf(status.tickers.order, status.tickers.rec)
       IN  IF p = <<>>
           THEN /\ pc' = "done"
                /\ ResetMem
           ELSE /\ pc' = "fetch"
                /\ pending' = p
                /\ i' = 0
                /\ k' = 0
                /\ site' = "batch"
                /\ UNCHANGED <<all_tickers, status, result>>
    /\ UNCHANGED <<disk, hist>>

\* Line 367: the provider is asked about the current ticker.
Fetch ==
    /\ pc = "fetch"
    /\ result' = fetch_ticker_data(Current, Provider(Current), now)
    /\ fetchLog' = Append(fetchLog, Current)
    /\ pc' = "record"
    /\ UNCHANGED <<disk, all_tickers, status, pending, i, k, site, env, count, crashInfo, everSaved>>

\* Line 402 and the end of the inner loop: on to the next ticker of the
\* batch, or to the save of line 405.
Advance(rec) ==
    /\ status' = [status EXCEPT !.tickers.rec[Current] = rec]
    /\ k' = k + 1
    /\ pc' = IF k + 1 < Len(Batch) THEN "fetch" ELSE "save"
    /\ result' = NoResult
    /\ UNCHANGED <<statusFile, all_tickers, pending, i, site, hist>>

RecordOther_AbortsOnFailure ==
    /\ pc = "record"
    /\ ~(result.result_status = "completed" /\ result.data # None)
    /\ IF result.result_status = "failed"
       THEN /\ pc' = "aborted"
            /\ ResetMem
            /\ UNCHANGED <<statusFile, hist>>
       ELSE Advance(NotCompleted(status.tickers.rec[Current], result))
    /\ UNCHANGED stockData

\* Lines 381-395: an outcome other than completed is recorded in memory.
RecordOther ==
    /\ pc = "record"
    /\ ~(result.result_status = "completed" /\ result.data # None)
    /\ Advance(NotCompleted(status.tickers.rec[Current], result))
    /\ UNCHANGED stockData

\* Lines 371-372: open(output_path, "w") creates or truncates the output file.
OpenOutput ==
    /\ pc = "record"
    /\ result.result_status = "completed" /\ result.data # None
    /\ stockData' = [stockData EXCEPT ![Current] = TornOutput]
    /\ pc' = "writing"
    /\ UNCHANGED <<statusFile, mem, hist>>

\* Lines 373-378: the data is written whole, then the record is completed.
WriteOutput ==
    /\ pc = "writing"
    /\ stockData' = [stockData EXCEPT ![Current] = WholeOutput(result.data)]
    /\ Advance(Completed(status.tickers.rec[Current], result.data))

WriteFails_StaysCompleted ==
    /\ ~steady
    /\ \/ pc = "writing"
       \/ pc = "record" /\ result.result_status = "completed" /\ result.data # None
    /\ Advance(Completed(status.tickers.rec[Current], result.data))
    /\ UNCHANGED stockData

WriteFails_StopsBatch ==
    /\ ~steady
    /\ \/ pc = "writing"
       \/ pc = "record" /\ result.result_status = "completed" /\ result.data # None
    /\ status' = [status EXCEPT !.tickers.rec[Current] =
                        Excepted(status.tickers.rec[Current], "OSError")]
    /\ k' = Len(Batch)
    /\ pc' = "save"
    /\ result' = NoResult
    /\ UNCHANGED <<disk, all_tickers, pending, i, site, hist>>

\* Lines 397-400: open or json.dump of the output raises (no space, no
\* permission); the file is left as it was at that point.
WriteFails ==
    /\ ~steady
    /\ \/ pc = "writing"
       \/ pc = "record" /\ result.result_status = "completed" /\ result.data # None
    /\ Advance(Excepted(status.tickers.rec[Current], "OSError"))
    /\ UNCHANGED stockData

Wake_StepsOne ==
    /\ pc = "sleep"
    /\ i' = i + 1
    /\ k' = 0
    /\ pc' = "fetch"
    /\ UNCHANGED <<disk, all_tickers, status, pending, site, result, hist>>

\* Lines 417-419 and the next turn of the outer loop.
Wake ==
    /\ pc = "sleep"
    /\ i' = i + BATCH_SIZE
    /\ k' = 0
    /\ pc' = "fetch"
    /\ UNCHANGED <<disk, all_tickers, status, pending, site, result, hist>>

Next ==
    \/ Crash
    \/ StartRun
    \/ MergeCatalog
    \/ SaveOpen
    \/ SaveWrite
    \/ SelectPending
    \/ Fetch
    \/ RecordOther
    \/ OpenOutput
    \/ WriteOutput
    \/ WriteFails
    \/ Wake

Spec == Init /\ [][Next]_vars

\* ------------------------------------------------- runs that are not killed
\* No process is killed, and a process that can take a step takes one.
NextRun ==
    \/ StartRun
    \/ MergeCatalog
    \/ SaveOpen
    \/ SaveWrite
    \/ SelectPending
    \/ Fetch
    \/ RecordOther
    \/ OpenOutput
    \/ WriteOutput
    \/ WriteFails
    \/ Wake

SpecRun == Init /\ [][NextRun]_vars /\ WF_vars(NextRun)

\* ------------------------------------------- fetch_ticker_data on its own
\* The responses of the provider that fetch_ticker_data is called with
\* directly: a raised error, with or without text, or an info dict and a news
\* list with each key the function reads present or absent, the market cap
\* on, next to and inside the bounds of the filter.
Raised == {Bundle(Some(e), None, None, None) : e \in {"HTTP 429", ""}}
Caps == {None, Dollars(9, 999999), MARKET_CAP_MIN, Dollars(50, 0), MARKET_CAP_MAX,
         Dollars(10000, 1)}
Answered ==
    {Info(Bundle(None, rmp, cp, mc), prev, opex, rev, shares, pct, n) :
        rmp \in {None, Some(300000)},
        cp \in {None, Some(0), Some(1050000)},
        mc \in Caps,
        prev \in {None, Some(1000004)},
        opex \in {None, Some(1200000), Some(100)},
        rev \in {None, Some(0)},
        shares \in {None, Some(1000000), Some(7)},
        pct \in {None, Some(1500)},
        n \in {<<>>, <<None>>, <<Some(950000)>>, <<Some(950000), None>>}}
Infos == Raised \cup Answered

InitUnit ==
    /\ all_tickers = <<>>
    /\ statusFile = NoFile
    /\ stockData = [t \in Tickers |-> NoOutput]
    /\ pc = "unit"
    /\ status = FreshStatus
    /\ pending = <<>>
    /\ i = 0
    /\ k = 0
    /\ site = "init"
    /\ result = NoResult
    /\ steady = TRUE
    /\ now = Clock0
    /\ info \in Infos
    /\ calls = <<>>
    /\ sleeps = 0
    /\ saves = 0
    /\ fetchLog = <<>>
    /\ crashInfo = NoCrash
    /\ everSaved = {}

\* Time passes between the calls.
Tick ==
    /\ pc = "unit"
    /\ now + 43200 \in Clocks
    /\ now' = now + 43200
    /\ UNCHANGED <<disk, mem, pc, steady, info, calls, count, fetchLog, crashInfo, everSaved>>

\* fetch_ticker_data is called for a ticker, and a second time for the same
\* ticker, with the same response of the provider; rec is the record that
\* lines 369-395 of main make of the outcome.
Call ==
    /\ pc = "unit"
    /\ Len(calls) < 2
    /\ \E t \in (IF calls = <<>> THEN Tickers ELSE {calls[1].ticker}) :
        LET out == fetch_ticker_data(t, info, now)
        IN  calls' = Append(calls, [ticker |-> t, at |-> now, out |-> out,
                                    rec |-> Apply(PendingRecord, out)])
    /\ UNCHANGED <<disk, mem, pc, steady, now, info, count, fetchLog, crashInfo, everSaved>>

NextUnit ==
    \/ Tick
    \/ Call

SpecUnit == InitUnit /\ [][NextUnit]_vars

\* ============================================================== the claims
Terminal == {"completed", "skipped", "failed"}

\* The status document a reader finds: nothing when the file is absent or torn.
DiskKeys == IF statusFile.state = "ok" THEN DOMAIN statusFile.doc.tickers.rec ELSE {}
DiskRec(t) == statusFile.doc.tickers.rec[t]
MemKeys == DOMAIN status.tickers.rec
MemRec(t) == status.tickers.rec[t]

\* The snapshot a run started now on catalog c would compute.
NextSnapshot(c) ==
    LET m == Merge(statusFile.doc.tickers, c) IN PendingOf(m.order, m.rec)

IsPrefix(p, q) == Len(p) <= Len(q) /\ SubSeq(q, 1, Len(p)) = p

\* ---- C1
\* A running process never changes a record's status except from pending to
\* completed, skipped or failed, and the records it holds agree with every
\* terminal record of the saved document: load, merge, processing and save
\* of this run or a later one never turn a terminal record back to pending.
MemStep ==
    \A t \in MemKeys \cap DOMAIN status'.tickers.rec :
        status'.tickers.rec[t].status # MemRec(t).status
            => MemRec(t).status = "pending" /\ status'.tickers.rec[t].status \in Terminal

MemAgrees ==
    Running =>
        \A t \in DiskKeys :
            DiskRec(t).status \in Terminal => t \in MemKeys /\ MemRec(t) = DiskRec(t)

C1_TerminalMonotonic == [][MemStep /\ MemAgrees']_vars

\* A later run is processing its snapshot while the saved document holds a
\* terminal record.
C1_Witness ==
    /\ pc = "record"
    /\ \E t \in DiskKeys : DiskRec(t).status \in Terminal

\* ---- C2
\* Every ticker the saved status document marks completed has a whole output
\* file, holding the data of that ticker with the recorded market cap.
C2_CompletedHasRecord ==
    \A t \in DiskKeys :
        DiskRec(t).status = "completed" =>
            /\ stockData[t].state = "ok"
            /\ stockData[t].data.yfinance_ticker = t
            /\ stockData[t].data.market_cap = DiskRec(t).market_cap

\* After a kill, the saved document marks a ticker completed.
C2_Witness ==
    /\ pc = "idle"
    /\ crashInfo.at # "none"
    /\ \E t \in DiskKeys : DiskRec(t).status = "completed"

\* ---- C3
\* With a provider that answers each ticker the same way and a disk that
\* takes every write, a run that ends, after whatever kills, ends normally
\* and leaves the statuses and output files of one uninterrupted run.
ExpectedRec(t) ==
    LET res == fetch_ticker_data(t, Provider(t), now)
    IN  Apply(PendingRecord, res)

ExpectedFile(t) ==
    LET res == fetch_ticker_data(t, Provider(t), now)
    IN  IF t \in DiskKeys /\ res.result_status = "completed"
        THEN WholeOutput(res.data) ELSE NoOutput

AsUninterrupted ==
    /\ statusFile.state = "ok"
    /\ \A t \in DiskKeys : DiskRec(t) = ExpectedRec(t)
    /\ \A t \in Tickers : stockData[t] = ExpectedFile(t)

C3_ResumesAsUninterrupted ==
    (steady /\ pc \in {"done", "aborted"}) => (pc = "done" /\ AsUninterrupted)

\* ---- C4
\* As claimed: killed after k tickers of a batch, the k are terminal in the
\* saved document and the next run's snapshot holds none of them.
MidBatchKill == pc = "idle" /\ crashInfo.at \in {"fetch", "record", "writing"}

C4_Original ==
    MidBatchKill =>
        /\ \A t \in crashInfo.lost : t \in DiskKeys /\ DiskRec(t).status \in Terminal
        /\ \A c \in Catalogs : Range(NextSnapshot(c)) \cap crashInfo.lost = {}

\* As amended: killed after k tickers of a batch, the saved document is whole,
\* the k are still pending in it and the tickers of the batches saved before
\* are terminal; the next run's snapshot starts with the interrupted batch
\* from its first ticker, then the rest of the old snapshot, and holds no
\* ticker of a saved batch.
C4_Amended ==
    MidBatchKill =>
        /\ statusFile.state = "ok"
        /\ \A t \in crashInfo.lost : t \in DiskKeys /\ DiskRec(t).status = "pending"
        /\ \A t \in crashInfo.saved : t \in DiskKeys /\ DiskRec(t).status \in Terminal
        /\ \A c \in Catalogs :
            /\ IsPrefix(crashInfo.rest, NextSnapshot(c))
            /\ Range(NextSnapshot(c)) \cap crashInfo.saved = {}

\* Killed after one ticker of a batch of two, with terminal records in the
\* saved document.
C4_Witness ==
    /\ MidBatchKill
    /\ crashInfo.lost # {}
    /\ Cardinality(crashInfo.lost) < Cardinality(crashInfo.batch)
    /\ \E t \in DiskKeys : DiskRec(t).status \in Terminal

\* ---- C5
\* The status file is never found truncated: a reader finds the document
\* of the last save or of the one before.
C5_AtomicSave == statusFile.state # "torn"


\* ---- C6
\* After a kill anywhere in a run, every ticker of a batch that run had
\* saved is terminal in the saved document and in no later snapshot, and the
\* next run fetches again at most BATCH_SIZE tickers whose outcome the
\* killed run had computed.
NextFetched(c) == IF statusFile.state = "torn" THEN {} ELSE Range(NextSnapshot(c))

C6_ReplayBound ==
    (pc = "idle" /\ crashInfo.at # "none") =>
        /\ \A t \in crashInfo.saved : t \in DiskKeys /\ DiskRec(t).status \in Terminal
        /\ \A c \in Catalogs :
            /\ NextFetched(c) \cap crashInfo.saved = {}
            /\ Cardinality(NextFetched(c) \cap (crashInfo.saved \cup crashInfo.lost))
                   <= BATCH_SIZE

\* ---- C7
\* Merging the catalog appends a pending record for each ticker that is no
\* key yet, in catalog order and once however often it is listed, leaves
\* every record there was as it is, and merging the same catalog again
\* changes nothing.
C7_IdempotentMerge ==
    pc = "merge" =>
        LET old == status.tickers
            m == Merge(old, all_tickers)
        IN  /\ Merge(m, all_tickers) = m
            /\ IsPrefix(old.order, m.order)
            /\ \A t \in DOMAIN old.rec : m.rec[t] = old.rec[t]
            /\ DOMAIN m.rec = DOMAIN old.rec \cup Range(all_tickers)
            /\ \A t \in DOMAIN m.rec \ DOMAIN old.rec : m.rec[t] = PendingRecord
            /\ Len(m.order) = Cardinality(DOMAIN m.rec)
            /\ Range(m.order) = DOMAIN m.rec

\* A catalog that lists a ticker twice and lists a ticker whose record is
\* terminal is about to be merged.
C7_Witness ==
    /\ pc = "merge"
    /\ \E a, b \in 1..Len(all_tickers) : a < b /\ all_tickers[a] = all_tickers[b]
    /\ \E t \in Range(all_tickers) \cap MemKeys : MemRec(t).status \in Terminal

\* ---- C8
\* Whenever no process is running, every ticker that was a key of a saved
\* status document is a key of the status document on disk.
C8_NeverRemoved == ~Running => everSaved \subseteq DiskKeys

Outcomes(t) == {fetch_ticker_data(t, Provider(u), now) : u \in Tickers}

C10_Original ==
    \A t \in MemKeys :
        MemRec(t).status # "pending" =>
            \A res \in Outcomes(t) : Apply(MemRec(t), res) = MemRec(t)

\* As amended: the loop body is only ever at work on a record that is
\* pending, and what it records is decided by the outcome alone, whatever
\* the record's status is: nothing tests for a terminal record.
C10_Amended ==
    /\ pc \in {"fetch", "record", "writing"} => MemRec(Current).status = "pending"
    /\ \A t \in MemKeys : \A res \in Outcomes(t) :
        Apply(MemRec(t), res).status =
            IF res.result_status = "completed" THEN "completed"
            ELSE IF res.result_status = "failed" THEN "failed" ELSE "skipped"

\* The loop has recorded a terminal outcome for one ticker of the batch and
\* is at the next.
C10_Witness ==
    /\ pc = "fetch"
    /\ k >= 1
    /\ MemRec(pending[i + k]).status \in Terminal


\* ---- C11
\* In every wholly saved status document each counter is the number of
\* records with that status, total is the number of records and the sum of
\* the four, whatever the counters in memory were before the save.
CountOf(doc, s) == Cardinality({t \in DOMAIN doc.tickers.rec : doc.tickers.rec[t].status = s})

C11_CountersRecomputed ==
    statusFile.state = "ok" =>
        LET doc == statusFile.doc
        IN  /\ doc.stats.completed = CountOf(doc, "completed")
            /\ doc.stats.failed = CountOf(doc, "failed")
            /\ doc.stats.skipped = CountOf(doc, "skipped")
            /\ doc.stats.pending = CountOf(doc, "pending")
            /\ doc.stats.total = Len(doc.tickers.order)
            /\ doc.stats.total = doc.stats.completed + doc.stats.failed
                                 + doc.stats.skipped + doc.stats.pending

\* A batch has just been saved: the document counts a completed and a
\* skipped record, and a pending one of the next batch.
C11_Witness ==
    /\ pc = "sleep"
    /\ statusFile.state = "ok"
    /\ statusFile.doc.stats.completed = 1
    /\ statusFile.doc.stats.skipped = 1
    /\ statusFile.doc.stats.pending = 1

\* ---- C12
\* A failed or skipped ticker stops nothing: a run is only ever aborted by a
\* torn status file, every ticker of the batch before the one at work has a
\* terminal record, the save after a batch finds the whole batch terminal,
\* and at the pause the batch is in the saved document as recorded.
C12_OutcomesLocal ==
    /\ pc = "aborted" => statusFile.state = "torn"
    /\ pc \in {"fetch", "record", "writing"} =>
        \A t \in Range(SubSeq(pending, i + 1, i + k)) : MemRec(t).status \in Terminal
    /\ (pc = "save" /\ site = "batch") =>
        \A t \in Range(Batch) : MemRec(t).status \in Terminal
    /\ pc = "sleep" =>
        /\ statusFile.state = "ok"
        /\ \A t \in Range(Batch) :
            t \in DiskKeys /\ DiskRec(t) = MemRec(t) /\ DiskRec(t).status \in Terminal

\* A batch whose first ticker failed and whose second was skipped has been
\* saved, and the run is at the pause before the next batch.
C12_Witness ==
    /\ pc = "sleep"
    /\ MemRec(pending[i + 1]).status = "failed"
    /\ MemRec(pending[i + 2]).status = "skipped"
    /\ DiskRec(pending[i + 1]).status = "failed"

\* ---- C13
\* While the status file is truncated and no process is at work in main, no
\* step changes the status file or an output file, starts the work of a run
\* or hands a ticker to the provider: a run that finds it ends at once.
C13_CorruptionFatal ==
    [][(statusFile.state = "torn" /\ ~Running) =>
            /\ statusFile' = statusFile
            /\ stockData' = stockData
            /\ pc' = "aborted"
            /\ fetchLog' = fetchLog]_vars

\* A run has ended on a truncated status file that once held records.
C13_Witness ==
    /\ pc = "aborted"
    /\ statusFile.state = "torn"
    /\ everSaved # {}


\* ---- C14
\* Tickers 1, 2 and 3 are A, B and C of the scenario: the provider gives 1 a
\* market cap of $50M, 2 one of $5M, and raises "HTTP 429" for 3.  When a
\* run over exactly these three has ended and every output write succeeded,
\* 1 is completed with its output file written, 2 is skipped with the
\* reason naming its $5,000,000 and the $10M minimum, 3 is failed with the
\* text of the error as reason, and the saved counters are 1, 1, 1 and 0.
C14_Scenario ==
    (steady /\ pc = "done" /\ statusFile.state = "ok"
            /\ statusFile.doc.tickers.order = <<1, 2, 3>>) =>
        /\ DiskRec(1).status = "completed"
        /\ DiskRec(1).market_cap = Dollars(50, 0)
        /\ stockData[1].state = "ok"
        /\ stockData[1].data.yfinance_ticker = 1
        /\ stockData[1].data.market_cap = Dollars(50, 0)
        /\ DiskRec(2).status = "skipped"
        /\ DiskRec(2).reason = <<"Market cap $", Dollars(5, 0), " below $10M minimum">>
        /\ stockData[2].state = "absent"
        /\ DiskRec(3).status = "failed"
        /\ DiskRec(3).reason = Provider(3).raises
        /\ DiskRec(3).reason = <<"HTTP 429">>
        /\ stockData[3].state = "absent"
        /\ statusFile.doc.stats =
            [total |-> 3, completed |-> 1, failed |-> 1, skipped |-> 1, pending |-> 0]

\* The run over the catalog A, B, C has ended, with no kill since it began.
C14_Witness ==
    /\ steady
    /\ pc = "done"
    /\ crashInfo = NoCrash
    /\ statusFile.state = "ok"
    /\ statusFile.doc.tickers.order = <<1, 2, 3>>
    /\ statusFile.doc.stats.completed = 1


\* ---- C15
\* A response with a price signal and a market cap of 10,000,000, of
\* 10,000,000,000 or between the two is completed, with data of that market
\* cap; one of 9,999,999 or of 10,000,000,001 is skipped, and the reason
\* names the amount and the bound it is beyond.
HasPrice(b) == b.raises = None /\ ~(b.regularMarketPrice = None /\ b.currentPrice = None)

C15_InclusiveBounds ==
    \A n \in 1..Len(calls) :
        LET c == calls[n]
            cap == info.marketCap
        IN  (HasPrice(info) /\ cap # None) =>
                /\ (~Less(cap, Dollars(10, 0)) /\ ~Less(Dollars(10000, 0), cap)) =>
                        /\ c.out.result_status = "completed"
                        /\ c.out.data # None
                        /\ c.out.data.market_cap = cap
                        /\ c.rec.status = "completed"
                /\ Less(cap, Dollars(10, 0)) =>
                        /\ c.out.data = None
                        /\ c.rec.status = "skipped"
                        /\ c.rec.reason = <<"Market cap $", cap, " below $10M minimum">>
                /\ Less(Dollars(10000, 0), cap) =>
                        /\ c.out.data = None
                        /\ c.rec.status = "skipped"
                        /\ c.rec.reason = <<"Market cap $", cap, " above $10B maximum">>

\* A response with a market cap of exactly the minimum or the maximum has
\* been completed.
C15_Witness ==
    /\ Len(calls) >= 1
    /\ HasPrice(info)
    /\ info.marketCap \in {Dollars(10, 0), Dollars(10000, 0)}
    /\ calls[1].rec.status = "completed"


\* ---- C16
\* As claimed: two calls for the same ticker with the same response of the
\* provider return the same data, whenever they are made.
C16_Original ==
    Len(calls) = 2 => calls[1].out.data = calls[2].out.data

\* What holds: the two calls return the same status and reason and make the
\* same record of the ticker; their data agree in every field other than
\* fetched_at, which is the clock reading of the call, and
\* days_since_last_pr, which counts whole days up to that reading; two calls
\* at the same clock reading return the same data.
Timeless(d) == IF d = None THEN None ELSE [d EXCEPT !.fetched_at = 0, !.days_since_last_pr = None]

C16_Amended ==
    Len(calls) = 2 =>
        LET a == calls[1]
            b == calls[2]
        IN  /\ a.out.result_status = b.out.result_status
            /\ a.out.reason = b.out.reason
            /\ a.rec = b.rec
            /\ Timeless(a.out.data) = Timeless(b.out.data)
            /\ \A c \in {a, b} : c.out.data # None =>
                /\ c.out.data.fetched_at = c.at
                /\ c.out.data.news_items # <<>> /\ LatestTs(c.out.data.news_items) > 0 =>
                    c.out.data.days_since_last_pr # None
            /\ a.at = b.at => a.out = b.out

\* A completed ticker with a dated news item has been fetched twice, the
\* second time a day later by the count of days_since_last_pr.
C16_Witness ==
    /\ Len(calls) = 2
    /\ calls[1].at < calls[2].at
    /\ calls[1].out.result_status = "completed"
    /\ calls[1].out.data.days_since_last_pr = Some(0)
    /\ calls[2].out.data.days_since_last_pr = Some(1)


\* ---- C17
\* In the data of a completed call each derived field is None exactly when
\* an operand is: price_change without price or previous close,
\* monthly_burn without opex or revenue, insider_shares without shares or
\* insider fraction, days_since_last_pr without a news item carrying a
\* positive timestamp.  With the operands present, price_change is price
\* minus previous close to four decimals, monthly_burn is a twelfth of opex
\* minus revenue to the cent (1,200,000 and 0 give 100,000.00),
\* insider_shares is the whole part of shares times fraction (1,000,000 and
\* 0.15 give 150000), and days_since_last_pr is the whole days from the
\* latest timestamp to the clock reading.  No absent operand turns an
\* answer with a price and a market cap inside the band into a failure.
Dated(n) == {m \in 1..Len(n) : n[m] # None /\ n[m][1] > 0}

Classified(c, r) ==
    IF info.raises # None
    THEN c.rec.status = "failed" /\ c.rec.reason = r /\ c.out.data = None
    ELSE IF info.regularMarketPrice = None /\ info.currentPrice = None
    THEN /\ c.rec.status = "skipped"
         /\ c.rec.reason = <<"No market data available">>
         /\ c.out.data = None
    ELSE IF info.marketCap = None
    THEN /\ c.rec.status = "skipped"
         /\ c.rec.reason = <<"No market cap data">>
         /\ c.out.data = None
    ELSE IF Less(info.marketCap, Dollars(10, 0)) \/ Less(Dollars(10000, 0), info.marketCap)
    THEN /\ c.rec.status = "skipped"
         /\ c.rec.reason # None
         /\ c.rec.reason \notin {<<"No market cap data">>, <<"No market data available">>}
         /\ c.out.data = None
    ELSE /\ c.rec.status = "completed"
         /\ c.rec.reason = None
         /\ c.out.data # None

\* As claimed: every call is classified in that order, as completed,
\* skipped or failed, and the reason of a failure is the text of the error.
C18_Original ==
    \A n \in 1..Len(calls) :
        /\ Classified(calls[n], info.raises)
        /\ calls[n].rec.status \in Terminal

\* What holds: the same, the reason of a failure being the text of the
\* error when it has one, and "Unknown error" when the text is empty.
C18_Amended ==
    \A n \in 1..Len(calls) :
        /\ Classified(calls[n],
                      IF info.raises = Some("") THEN <<"Unknown error">> ELSE info.raises)
        /\ calls[n].rec.status \in Terminal

\* A response without a price signal and with a market cap below the band
\* has been classified, as skipped for want of data.
C18_Witness ==
    /\ Len(calls) >= 1
    /\ info.raises = None
    /\ info.regularMarketPrice = None /\ info.currentPrice = None
    /\ info.marketCap = Dollars(9, 999999)
    /\ calls[1].rec.reason = <<"No market data available">>


\* ---- C19
\* In a run that is not killed: the snapshot is taken once, when the batch
\* loop is entered, and holds the pending keys of the status in dict order;
\* it is not changed until the run ends.  Batches start at multiples of
\* BATCH_SIZE and hold BATCH_SIZE tickers, the last one what is left.  The
\* tickers handed to the provider so far are the snapshot up to the ticker
\* at work, each once and in order.  The run ends, and the document its
\* last save writes has no ticker of the snapshot pending and a pending
\* counter of the pending tickers outside the snapshot.
InLoop == pc \in {"fetch", "record", "writing", "sleep"} \/ (pc \in {"save", "saving"} /\ site # "init")

Reached ==
    IF site = "final" THEN Len(pending)
    ELSE IF pc \in {"record", "writing"} THEN i + k + 1
    ELSE i + k

SnapshotTaken ==
    (pc = "select" /\ pc' = "fetch") =>
        /\ Range(pending') = {t \in MemKeys : MemRec(t).status = "pending"}
        /\ \A m, n \in 1..Len(pending') : m < n =>
            \E x, y \in 1..Len(status.tickers.order) :
                /\ x < y
                /\ status.tickers.order[x] = pending'[m]
                /\ status.tickers.order[y] = pending'[n]

SnapshotKept == (InLoop /\ pending' # pending) => (pc = "saving" /\ site = "final" /\ pc' = "done")

LastSave ==
    (pc = "saving" /\ site = "final" /\ pc' = "done") =>
        /\ statusFile'.state = "ok"
        /\ \A t \in Range(pending) : statusFile'.doc.tickers.rec[t].status \in Terminal
        /\ statusFile'.doc.stats.pending =
            Cardinality({t \in DOMAIN statusFile'.doc.tickers.rec \ Range(pending) :
                            statusFile'.doc.tickers.rec[t].status = "pending"})

Batched ==
    InLoop =>
        /\ pending # <<>>
        /\ i % BATCH_SIZE = 0
        /\ i < Len(pending)
        /\ Len(Batch) = BATCH_SIZE \/ (i + Len(Batch) = Len(pending) /\ Len(Batch) \in 1..BATCH_SIZE)
        /\ k \in 0..Len(Batch)
        /\ fetchLog = SubSeq(pending, 1, Reached)
        /\ \A m, n \in 1..Len(pending) : pending[m] = pending[n] => m = n
        /\ \A n \in 1..Len(pending) :
            MemRec(pending[n]).status \in Terminal <=>
                n <= (IF pc \in {"record", "writing"} THEN Reached - 1 ELSE Reached)

C19_SnapshotOnce ==
    /\ []Batched
    /\ [][SnapshotTaken /\ SnapshotKept /\ LastSave]_vars
    /\ (Running ~> pc = "done")

\* The second, shorter batch of a snapshot of three has been processed and
\* the last save is about to be made.
C19_Witness ==
    /\ pc = "save"
    /\ site = "final"
    /\ i = BATCH_SIZE
    /\ Len(pending) = BATCH_SIZE + 1
    /\ fetchLog = pending


\* ---- C20
\* While batch j + 1 of a run is processed and saved, j saves after a batch
\* and j pauses have been made, and every ticker of the batches before it is
\* terminal in the saved document; the save after a batch begins when all
\* tickers of the batch have been handed to the provider; at a pause one
\* more save and one more pause have been made and a batch is left; after
\* the last batch as many saves as batches have been made and one pause
\* fewer, ceil(n / b) - 1 for n tickers in batches of b.
Batches == (Len(pending) + BATCH_SIZE - 1) \div BATCH_SIZE

C20_BatchOrder ==
    InLoop =>
        LET j == i \div BATCH_SIZE
        IN  /\ site = "batch" /\ pc # "sleep" =>
                /\ saves = j
                /\ sleeps = j
                /\ j < Batches
                /\ pc # "saving" =>
                    \A t \in Range(SubSeq(pending, 1, i)) :
                        t \in DiskKeys /\ DiskRec(t).status \in Terminal
            /\ site = "batch" /\ pc \in {"save", "saving"} =>
                Range(Batch) \subseteq Range(fetchLog)
            /\ pc = "sleep" =>
                /\ saves = j + 1
                /\ sleeps = j + 1
                /\ j + 1 < Batches
                /\ \A t \in Range(SubSeq(pending, 1, BatchEnd)) :
                    t \in DiskKeys /\ DiskRec(t).status \in Terminal
            /\ site = "final" =>
                /\ saves = Batches
                /\ sleeps = Batches - 1
                /\ j = Batches - 1

\* Two batches have been processed and saved, with one pause between them.
C20_Witness ==
    /\ pc = "save"
    /\ site = "final"
    /\ saves = 2
    /\ sleeps = 1

\* ---- C21
\* As claimed: when a signal has ended the process in the batch loop, during
\* a batch or at the pause after it, the status file is a whole document
\* and no outcome the run had recorded is missing from it.
C21_CancelSaves ==
    (crashInfo.at = "sleep" \/ crashInfo.batch # {}) =>
        /\ statusFile.state = "ok"
        /\ crashInfo.lost = {}
        /\ \A t \in crashInfo.saved : t \in DiskKeys /\ DiskRec(t).status \in Terminal

\* ---- C22
\* Every record of the status dict in memory and of the saved document has a
\* reason exactly when it is skipped or failed, and a market cap exactly
\* when it is completed; pending and completed records have no reason.
WellFormed(r) ==
    /\ r.reason # None <=> r.status \in {"skipped", "failed"}
    /\ r.market_cap # None <=> r.status = "completed"
    /\ r.status \in {"pending", "completed"} => r.reason = None
    /\ r.status \in Terminal \cup {"pending"}

C22_ReasonAndMetadata ==
    /\ \A t \in MemKeys : WellFormed(MemRec(t))
    /\ \A t \in DiskKeys : WellFormed(DiskRec(t))

\* The saved document holds a completed, a failed and a pending record.
C22_Witness ==
    /\ \E t \in DiskKeys : DiskRec(t).status = "completed" /\ DiskRec(t).market_cap # None
    /\ \E t \in DiskKeys : DiskRec(t).status = "failed" /\ DiskRec(t).reason # None
    /\ \E t \in DiskKeys : DiskRec(t).status = "pending"

\* ---- C23
\* As claimed: a ticker whose record is skipped or failed has no output
\* file, whole or partial.  The output directory starts empty and no file is
\* ever deleted, so such a file would have been created while that ticker
\* was processed.
C23_OnlyOnCompleted ==
    /\ \A t \in MemKeys :
        MemRec(t).status \in {"skipped", "failed"} => stockData[t] = NoOutput
    /\ \A t \in DiskKeys :
        DiskRec(t).status \in {"skipped", "failed"} => stockData[t] = NoOutput

\* ---- C24
\* The step in which processing of a ticker with completed data ends without
\* that step writing the output file is a failed write: it records the
\* ticker as failed with the text of the error as reason, and the run goes
\* on with the next ticker of the batch, or with the save of the batch after
\* its last ticker.  No record in memory is completed without a whole
\* output file, and a record with the reason of a failed write is failed.
WriteFailed ==
    /\ pc \in {"record", "writing"}
    /\ result.result_status = "completed"
    /\ status' # status
    /\ pc' # "idle"
    /\ stockData' = stockData

AfterWriteFailed ==
    /\ status'.tickers.rec[Current].status = "failed"
    /\ status'.tickers.rec[Current].reason = <<"OSError">>
    /\ \A t \in MemKeys \ {Current} : status'.tickers.rec[t] = MemRec(t)
    /\ pending' = pending /\ i' = i /\ k' = k + 1
    /\ pc' = IF i + k + 1 < BatchEnd THEN "fetch" ELSE "save"
    /\ (pc' = "fetch") => pending'[i' + k' + 1] = pending[i + k + 2]

NoneCompletedUnwritten ==
    \A t \in MemKeys :
        /\ MemRec(t).status = "completed" => stockData[t].state = "ok"
        /\ MemRec(t).reason = <<"OSError">> => MemRec(t).status = "failed"

C24_WriteFailureIsFailed ==
    /\ []NoneCompletedUnwritten
    /\ [][WriteFailed => AfterWriteFailed]_vars

\* The write for the first ticker of a batch has failed and the second
\* ticker of the batch is about to be fetched.
C24_Witness ==
    /\ pc = "fetch"
    /\ k = 1
    /\ MemRec(pending[i + 1]).status = "failed"
    /\ MemRec(pending[i + 1]).reason = <<"OSError">>

====
